---- MODULE Spec2Model ----
(***************************************************************************)
(* Pedestrian detection and distance ranging (Scripts/utils.py,            *)
(* Scripts/hog_detector.py, Scripts/detect_and_range.py).                  *)
(*                                                                         *)
(* Rectangles are tuples <<x1, y1, x2, y2>>; Python list and array indices *)
(* are 0-based in the source and 1-based here.  Real-valued quantities are *)
(* exact rationals <<numerator, denominator>>; floating-point rounding is  *)
(* not modelled.                                                           *)
(***************************************************************************)
EXTENDS Integers, Sequences, FiniteSets, TLC

VARIABLES
    boxes,          \* non_max_suppression_fast: the boxes argument
    overlapThresh,  \* non_max_suppression_fast: overlapThresh, a rational <<n, d>>
    idxs,           \* non_max_suppression_fast: indexes still remaining
    pick,           \* non_max_suppression_fast: picked indexes
    nmsPc,          \* "entry" | "loop" | "done" | "idle"
    nmsRet,         \* value returned by non_max_suppression_fast
    lastPick,       \* index accepted by the latest loop iteration (0: none yet)
    prevIdxs,       \* idxs as it was before the latest loop iteration
    run,            \* 1: first application, 2: applied again to its own output
    firstBoxes,     \* the boxes argument of the first application
    firstRet,       \* value returned by the first application
    stableOrder,    \* TRUE while every argsort so far kept ties in array order
    image,          \* hog_detect: shape <<height, width>> of the image argument
    rescaling_factor, \* hog_detect: rescaling_factor, a rational <<n, d>>
    hogPc,          \* "levels" | "windows" | "suppress" | "nms" | "done" | "raised" | "idle"
    levelNo,        \* hog_detect: number of pyramid levels yielded so far
    resized,        \* hog_detect: shape of the current pyramid level
    current_scale,  \* hog_detect: current_scale, a rational (<<-1, 1>>: the flag value)
    pending,        \* hog_detect: window positions <<x, y>> the scanner has yet to yield
    detections,     \* hog_detect: detections, rectangles of rationals
    lastEval,       \* what the latest window evaluation did
    nmsCalls,       \* number of calls of non_max_suppression_fast made by hog_detect
    hogRet,         \* value returned by hog_detect
    rectangle,      \* compute_single_depth: rectangle
    disparity_image, \* compute_single_depth: disparity_image, rows of uint8 values
    focal_length,   \* compute_single_depth: focal_length
    distance_between_cameras, \* compute_single_depth: distance_between_cameras
    depthPc,        \* "call" | "done" | "idle"
    depthRet,       \* value returned by compute_single_depth
    heurArgs,       \* area_depth_heuristic: its arguments
    heurPc,         \* "call" | "done" | "idle"
    heurRet,        \* value returned by area_depth_heuristic
    dispRaw,        \* compute_disparity: what stereoProcessor.compute returned
    dispArray,      \* compute_disparity: disparity, the values at the pixels followed
    dispPc,         \* "speckles" | "threshold" | "scale" | "crop" | "done" | "idle"
    disparity_scaled, \* compute_disparity: disparity_scaled at the pixels followed
    dispRet         \* value returned by compute_disparity: the cells kept by the crop

nmsVars == <<boxes, overlapThresh, idxs, pick, nmsPc, nmsRet, lastPick,
             prevIdxs, run, firstBoxes, firstRet, stableOrder>>

hogVars == <<image, rescaling_factor, hogPc, levelNo, resized, current_scale,
             pending, detections, lastEval, nmsCalls, hogRet>>

depthVars == <<rectangle, disparity_image, focal_length, distance_between_cameras,
               depthPc, depthRet>>

heurVars == <<heurArgs, heurPc, heurRet>>

dispVars == <<dispRaw, dispArray, dispPc, disparity_scaled, dispRet>>

vars == <<nmsVars, hogVars, depthVars, heurVars, dispVars>>

----------------------------------------------------------------------------
(* The state of a function that is not running *)

\* lastEval before any window has been evaluated
NoEval == [window |-> <<0, 0>>, descriptor |-> "none", predicted |-> FALSE,
           result |-> "none"]

\* a return value not yet produced
NoValue == [kind |-> "none", value |-> <<0, 1>>]

\* the arguments of area_depth_heuristic while it is not called
NoArgs == [height |-> 0, width |-> 0, pixel_height |-> 0, pixel_width |-> 0,
           distance |-> 1, focal_length |-> 0, mush_factor |-> <<0, 1>>]

IdleNMS ==
    /\ boxes = <<>> /\ overlapThresh = <<0, 1>> /\ idxs = <<>> /\ pick = <<>>
    /\ nmsPc = "idle" /\ nmsRet = <<>> /\ lastPick = 0 /\ prevIdxs = <<>>
    /\ run = 0 /\ firstBoxes = <<>> /\ firstRet = <<>> /\ stableOrder = TRUE

IdleHog ==
    /\ image = <<0, 0>> /\ rescaling_factor = <<1, 1>> /\ hogPc = "idle"
    /\ levelNo = 0 /\ resized = <<0, 0>> /\ current_scale = <<-1, 1>>
    /\ pending = <<>> /\ detections = <<>> /\ lastEval = NoEval
    /\ nmsCalls = 0 /\ hogRet = <<>>

IdleDepth ==
    /\ rectangle = <<0, 0, 0, 0>> /\ disparity_image = <<>> /\ focal_length = 0
    /\ distance_between_cameras = 0 /\ depthPc = "idle" /\ depthRet = NoValue

IdleHeur ==
    /\ heurArgs = NoArgs /\ heurPc = "idle" /\ heurRet = "none"

IdleDisp ==
    /\ dispRaw = <<>> /\ dispArray = <<>> /\ dispPc = "idle"
    /\ disparity_scaled = <<>> /\ dispRet = <<>>

----------------------------------------------------------------------------
(* Bounds of the model *)

\* largest number of rectangles handed to the suppressor
MaxBoxes == 3
\* largest number of windows the classifier labels positive in one scan
MaxPositives == 2
\* largest disparity value of a pixel of the disparity image
MaxDisparity == 2
\* largest coordinate of a rectangle handed to compute_single_depth
MaxCoord == 3
\* largest pixel height and width of a detection handed to area_depth_heuristic
MaxPixels == 4
\* largest measured distance handed to area_depth_heuristic
MaxDistance == 3

----------------------------------------------------------------------------
(* Helpers *)

Max(a, b) == IF a >= b THEN a ELSE b
Min(a, b) == IF a <= b THEN a ELSE b

Range(s) == {s[k] : k \in 1..Len(s)}

\* greatest common divisor of two naturals, not both zero
RECURSIVE GCD(_, _)
GCD(a, b) == IF b = 0 THEN a ELSE GCD(b, a % b)

Abs(a) == IF a < 0 THEN -a ELSE a

\* the rational n / d (d # 0) in lowest terms with a positive denominator
Rat(n, d) ==
    LET g == GCD(Abs(n), Abs(d))
        sgn == IF d < 0 THEN -1 ELSE 1
    IN <<sgn * (n \div g), sgn * (d \div g)>>

\* product and order of rationals in lowest terms
RatMul(a, b) == Rat(a[1] * b[1], a[2] * b[2])
RatLess(a, b) == a[1] * b[2] < b[1] * a[2]

\* numpy.delete(seq, positions): seq without the elements at the given positions
NpDelete(seq, positions) ==
    LET keepPos == {k \in 1..Len(seq) : k \notin positions}
        F[k \in 0..Len(seq)] ==
            IF k = 0 THEN <<>>
            ELSE IF k \in keepPos THEN Append(F[k-1], seq[k]) ELSE F[k-1]
    IN F[Len(seq)]

----------------------------------------------------------------------------
(* non_max_suppression_fast, utils.py:320-377 *)

\* area = (x2 - x1 + 1) * (y2 - y1 + 1)
Area(b) == (b[3] - b[1] + 1) * (b[4] - b[2] + 1)

\* w = max(0, xx2 - xx1 + 1) with xx1 = max(x1[i], x1[c]), xx2 = min(x2[i], x2[c])
InterW(a, c) == Max(0, Min(a[3], c[3]) - Max(a[1], c[1]) + 1)

\* h = max(0, yy2 - yy1 + 1) with yy1 = max(y1[i], y1[c]), yy2 = min(y2[i], y2[c])
InterH(a, c) == Max(0, Min(a[4], c[4]) - Max(a[2], c[2]) + 1)

\* Faulty variant of OverlapExceeds: the ratio is taken over the accepted box's area.
OverlapExceedsAcceptedArea(a, c, T) ==
    InterW(a, c) * InterH(a, c) * T[2] > T[1] * Area(a)

\* Faulty variant of OverlapExceeds: the ratio is compared with >=.
OverlapExceedsOrEqual(a, c, T) ==
    InterW(a, c) * InterH(a, c) * T[2] >= T[1] * Area(c)

\* overlap = (w * h) / area[c];  overlap > overlapThresh, for T = T[1] / T[2]
OverlapExceeds(a, c, T) ==
    InterW(a, c) * InterH(a, c) * T[2] > T[1] * Area(c)

\* Faulty variant of ArgsortResults: any order at all.
ArgsortAnyOrder(bs) ==
    {p \in [1..Len(bs) -> 1..Len(bs)] :
        \A j, k \in 1..Len(bs) : j # k => p[j] # p[k]}

\* np.argsort(y2): the index orders with ascending y2.  The default sort kind
\* is not a stable one, so the order among equal y2 is any order.
ArgsortResults(bs) ==
    {p \in [1..Len(bs) -> 1..Len(bs)] :
        /\ \A j, k \in 1..Len(bs) : j # k => p[j] # p[k]
        /\ \A j, k \in 1..Len(bs) : j < k => bs[p[j]][4] <= bs[p[k]][4]}

\* whether an argsort result keeps equal y2 in array order
IsStableOrder(bs, p) ==
    \A j, k \in 1..Len(bs) : (j < k /\ bs[p[j]][4] = bs[p[k]][4]) => p[j] < p[k]

\* Faulty variant of DeletedPositions: the accepted index itself is not deleted.
DeletedPositionsOverlapOnly(bs, ix, T) ==
    {k \in 1..(Len(ix) - 1) : OverlapExceeds(bs[ix[Len(ix)]], bs[ix[k]], T)}

\* positions deleted by one iteration:
\* np.concatenate(([last], np.where(overlap > overlapThresh)[0]))
DeletedPositions(bs, ix, T) ==
    LET last == Len(ix)
    IN {last} \cup {k \in 1..(last - 1) : OverlapExceeds(bs[ix[last]], bs[ix[k]], T)}

\* Faulty variant of NextIdxs: the accepted index is deleted, nothing else.
NextIdxsOnlyLast(bs, ix, T) == NpDelete(ix, {Len(ix)})

\* idxs after one iteration of the while loop
NextIdxs(bs, ix, T) == NpDelete(ix, DeletedPositions(bs, ix, T))

\* Faulty variant of NmsEnter: no early return for an empty list, so that
\* boxes[:, 0] raises on the empty array.
NmsEnterUnguarded ==
    /\ nmsPc = "entry"
    /\ IF Len(boxes) = 0
       THEN /\ nmsPc' = "raised"
            /\ UNCHANGED <<nmsRet, idxs, pick, stableOrder>>
       ELSE /\ \E p \in ArgsortResults(boxes) :
                  /\ idxs' = p
                  /\ stableOrder' = (stableOrder /\ IsStableOrder(boxes, p))
            /\ pick' = <<>>
            /\ nmsPc' = "loop"
            /\ UNCHANGED nmsRet
    /\ UNCHANGED <<boxes, overlapThresh, lastPick, prevIdxs, run, firstBoxes, firstRet>>
    /\ UNCHANGED <<hogVars, depthVars, heurVars, dispVars>>

\* if len(boxes) == 0: return []       otherwise pick = [], idxs = argsort(y2)
NmsEnter ==
    /\ nmsPc = "entry"
    /\ IF Len(boxes) = 0
       THEN /\ nmsRet' = <<>>
            /\ nmsPc' = "done"
            /\ UNCHANGED <<idxs, pick, stableOrder>>
       ELSE /\ \E p \in ArgsortResults(boxes) :
                  /\ idxs' = p
                  /\ stableOrder' = (stableOrder /\ IsStableOrder(boxes, p))
            /\ pick' = <<>>
            /\ nmsPc' = "loop"
            /\ UNCHANGED nmsRet
    /\ UNCHANGED <<boxes, overlapThresh, lastPick, prevIdxs, run, firstBoxes, firstRet>>
    /\ UNCHANGED <<hogVars, depthVars, heurVars, dispVars>>

\* one iteration of "while len(idxs) > 0"
NmsIterate ==
    /\ nmsPc = "loop"
    /\ Len(idxs) > 0
    /\ pick' = Append(pick, idxs[Len(idxs)])
    /\ lastPick' = idxs[Len(idxs)]
    /\ prevIdxs' = idxs
    /\ idxs' = NextIdxs(boxes, idxs, overlapThresh)
    /\ UNCHANGED <<boxes, overlapThresh, nmsPc, nmsRet, run, firstBoxes, firstRet,
                   stableOrder>>
    /\ UNCHANGED <<hogVars, depthVars, heurVars, dispVars>>

\* the loop condition fails: return pick
NmsReturn ==
    /\ nmsPc = "loop"
    /\ Len(idxs) = 0
    /\ nmsRet' = pick
    /\ nmsPc' = "done"
    /\ UNCHANGED <<boxes, overlapThresh, idxs, pick, lastPick, prevIdxs, run,
                   firstBoxes, firstRet, stableOrder>>
    /\ UNCHANGED <<hogVars, depthVars, heurVars, dispVars>>

\* the rectangles a returned index list names, in the order they were picked
PickedBoxes(bs, r) == [k \in 1..Len(r) |-> bs[r[k]]]

\* the suppressor applied to the rectangles its first application kept
NmsReapply ==
    /\ nmsPc = "done"
    /\ run = 1
    /\ run' = 2
    /\ firstRet' = nmsRet
    /\ boxes' = PickedBoxes(boxes, nmsRet)
    /\ idxs' = <<>>
    /\ pick' = <<>>
    /\ nmsRet' = <<>>
    /\ lastPick' = 0
    /\ prevIdxs' = <<>>
    /\ nmsPc' = "entry"
    /\ UNCHANGED <<overlapThresh, firstBoxes, stableOrder>>
    /\ UNCHANGED <<hogVars, depthVars, heurVars, dispVars>>

RECURSIVE NmsLoop(_, _, _, _)
\* the while loop run to its end: the picked indexes
NmsLoop(bs, ix, pk, T) ==
    IF Len(ix) = 0 THEN pk
    ELSE NmsLoop(bs, NextIdxs(bs, ix, T), Append(pk, ix[Len(ix)]), T)

\* the values one call of non_max_suppression_fast(bs, T) can return
NmsResults(bs, T) ==
    IF Len(bs) = 0 THEN {<<>>}
    ELSE {NmsLoop(bs, p, <<>>, T) : p \in ArgsortResults(bs)}

\* horizontal extents of the input rectangles
XSpans == {<<0, 1>>, <<0, 3>>}

\* vertical extents of the input rectangles
YSpans == {<<0, 1>>, <<0, 2>>, <<1, 2>>}

\* input rectangles: x1 < x2 and y1 < y2
InputBoxes == {<<xs[1], ys[1], xs[2], ys[2]>> : xs \in XSpans, ys \in YSpans}

\* the four detections of the scenario of the specification
ScenarioBoxes ==
    << <<0, 0, 50, 50>>, <<5, 5, 55, 55>>, <<200, 200, 260, 260>>, <<0, 0, 48, 48>> >>

\* thresholds T in [0, 1]; 2/5 is the threshold hog_detect passes
Thresholds == {<<0, 1>>, <<2, 5>>, <<1, 2>>, <<1, 1>>}

BoxLists == UNION {[1..n -> InputBoxes] : n \in 0..MaxBoxes}

\* rectangles that do not all intersect: the first two share a column and so do
\* the last two; the third meets the first only and the fourth the second only
ClusterBoxes == {<<2, 0, 4, 1>>, <<4, 0, 6, 1>>, <<0, 1, 2, 2>>, <<6, 1, 8, 2>>}

\* lists of four of these rectangles, suppressed at the extreme thresholds
ClusterLists == [1..4 -> ClusterBoxes]
ExtremeThresholds == {<<0, 1>>, <<1, 1>>}

InitNMS ==
    /\ \/ boxes \in BoxLists /\ overlapThresh \in Thresholds
       \/ boxes = ScenarioBoxes /\ overlapThresh = <<2, 5>>
       \/ boxes \in ClusterLists /\ overlapThresh \in ExtremeThresholds
    /\ firstBoxes = boxes
    /\ idxs = <<>>
    /\ pick = <<>>
    /\ nmsPc = "entry"
    /\ nmsRet = <<>>
    /\ lastPick = 0
    /\ prevIdxs = <<>>
    /\ run = 1
    /\ firstRet = <<>>
    /\ stableOrder = TRUE
    /\ IdleHog /\ IdleDepth /\ IdleHeur /\ IdleDisp

NextNMS == NmsEnter \/ NmsIterate \/ NmsReturn \/ NmsReapply

SpecNMS == InitNMS /\ [][NextNMS]_vars

----------------------------------------------------------------------------
(* hog_detect, hog_detector.py:19-97 *)

\* window_size = params.DATA_WINDOW_SIZE, <<width, height>>; the module params
\* is not among the sources, and the model scans with a small window
DATA_WINDOW_SIZE == <<4, 8>>

\* step = math.floor(resized.shape[0] / 16)
StepDivisor == 16

\* the overlap threshold hog_detect hands to the suppressor: 0.4
HogOverlapThresh == <<2, 5>>

\* pyramid(image, scale): the shape of the level after one of shape sh, both
\* sides resampled down by 1 / scale
PyramidResize(sh, R) == <<(sh[1] * R[2]) \div R[1], (sh[2] * R[2]) \div R[1]>>

\* pyramid: a further level is yielded unless a side is below the window size
PyramidYields(sh) == sh[1] >= DATA_WINDOW_SIZE[2] /\ sh[2] >= DATA_WINDOW_SIZE[1]

\* sliding_window(resized, window_size, step_size): the top-left corners <<x, y>>
\* of the windows, row by row from (0, 0), each window inside the image
SlidingWindow(sh, win, step) ==
    LET nx == IF sh[2] >= win[1] THEN (sh[2] - win[1]) \div step + 1 ELSE 0
        ny == IF sh[1] >= win[2] THEN (sh[1] - win[2]) \div step + 1 ELSE 0
    IN [k \in 1..(nx * ny) |-> <<((k - 1) % nx) * step, ((k - 1) \div nx) * step>>]

\* Faulty variant of Step: the stride is clamped to 1 or more.
StepAtLeastOne(sh) == Max(1, sh[1] \div StepDivisor)

\* step = math.floor(resized.shape[0] / 16)
Step(sh) == sh[1] \div StepDivisor

\* Faulty variant of NextScale: the scale is multiplied by the ratio.
NextScaleMultiplied(scale, R) ==
    IF scale = <<-1, 1>> THEN <<1, 1>> ELSE Rat(scale[1] * R[1], scale[2] * R[2])

\* current_scale at a new level: 1 at the flag value -1, else current_scale / ratio
NextScale(scale, R) ==
    IF scale = <<-1, 1>> THEN <<1, 1>> ELSE Rat(scale[1] * R[2], scale[2] * R[1])

\* rect = np.float32([x, y, x + w, y + h]);  rect *= (1.0 / current_scale)
RescaledRect(pos, win, scale) ==
    LET local == <<pos[1], pos[2], pos[1] + win[1], pos[2] + win[2]>>
    IN [c \in 1..4 |-> Rat(local[c] * scale[2], scale[1])]

\* np.int32(detections): every component truncated
Int32Boxes(ds) == [k \in 1..Len(ds) |-> [c \in 1..4 |-> ds[k][c][1] \div ds[k][c][2]]]

\* ImageData.compute_hog_descriptor (utils.py:453-466): the descriptor stored for
\* a window, given what hog.compute returned ("None" or "vector")
ComputeHogDescriptor(computed) == IF computed = "None" THEN "empty" ELSE computed

\* if img_data.hog_descriptor is not None
DescriptorPasses(descriptor) == descriptor # "None"

\* svm_object.predict on a descriptor: a label, or an error raised on a
\* descriptor that is no feature vector
PredictOutcomes(descriptor) ==
    IF descriptor = "vector" THEN {"positive", "negative"}
    ELSE {"positive", "negative", "raise"}

\* for resized in pyramid(image, scale=rescaling_factor): the generator yields a
\* level (the image itself first) and the loop body runs up to the window loop,
\* or the generator is exhausted and the loop ends
HogNextLevel ==
    /\ hogPc = "levels"
    /\ LET next == IF levelNo = 0 THEN image
                   ELSE PyramidResize(resized, rescaling_factor)
           yields == levelNo = 0 \/ PyramidYields(next)
           step == Step(next)
           windows == IF step > 0 THEN SlidingWindow(next, DATA_WINDOW_SIZE, step)
                      ELSE <<>>
       IN IF yields
          THEN /\ resized' = next
               /\ levelNo' = levelNo + 1
               /\ current_scale' = NextScale(current_scale, rescaling_factor)
               /\ pending' = windows
               /\ hogPc' = IF Len(windows) > 0 THEN "windows" ELSE "levels"
          ELSE /\ hogPc' = "suppress"
               /\ UNCHANGED <<resized, levelNo, current_scale, pending>>
    /\ UNCHANGED <<image, rescaling_factor, detections, lastEval, nmsCalls, hogRet>>
    /\ UNCHANGED <<nmsVars, depthVars, heurVars, dispVars>>

\* the body of "for (x, y, window) in sliding_window(...)" for one window
HogEvalWindow ==
    /\ hogPc = "windows"
    /\ Len(pending) > 0
    /\ \E computed \in {"None", "vector"} :
        LET pos == Head(pending)
            descriptor == ComputeHogDescriptor(computed)
        IN IF DescriptorPasses(descriptor)
           THEN \E result \in PredictOutcomes(descriptor) :
                  /\ result = "positive" => Len(detections) < MaxPositives
                  /\ lastEval' = [window |-> pos, descriptor |-> descriptor,
                                  predicted |-> TRUE, result |-> result]
                  /\ detections' =
                        IF result = "positive"
                        THEN Append(detections,
                                    RescaledRect(pos, DATA_WINDOW_SIZE, current_scale))
                        ELSE detections
                  /\ hogPc' = IF result = "raise" THEN "raised"
                              ELSE IF Len(pending) > 1 THEN "windows" ELSE "levels"
           ELSE /\ lastEval' = [window |-> pos, descriptor |-> descriptor,
                                predicted |-> FALSE, result |-> "none"]
                /\ detections' = detections
                /\ hogPc' = IF Len(pending) > 1 THEN "windows" ELSE "levels"
    /\ pending' = Tail(pending)
    /\ UNCHANGED <<image, rescaling_factor, levelNo, resized, current_scale,
                   nmsCalls, hogRet>>
    /\ UNCHANGED <<nmsVars, depthVars, heurVars, dispVars>>

\* what hog_detect returns: the list non_max_suppression_fast returned, a list of
\* indexes into detections
ReturnedList(picked) == [k \in 1..Len(picked) |-> [type |-> "index", value |-> picked[k]]]

\* detections = non_max_suppression_fast(np.int32(detections), 0.4); return detections
HogSuppress ==
    /\ hogPc = "suppress"
    /\ \E picked \in NmsResults(Int32Boxes(detections), HogOverlapThresh) :
          hogRet' = ReturnedList(picked)
    /\ nmsCalls' = nmsCalls + 1
    /\ hogPc' = "done"
    /\ UNCHANGED <<image, rescaling_factor, levelNo, resized, current_scale,
                   pending, detections, lastEval>>
    /\ UNCHANGED <<nmsVars, depthVars, heurVars, dispVars>>

\* shapes <<height, width>> of the images scanned
ImageShapes == {<<4, 4>>, <<12, 6>>, <<16, 5>>, <<16, 6>>, <<32, 6>>}

\* pyramid ratios R > 1
Ratios == {<<2, 1>>, <<3, 2>>}

InitHog ==
    /\ image \in ImageShapes
    /\ rescaling_factor \in Ratios
    /\ hogPc = "levels"
    /\ levelNo = 0
    /\ resized = image
    /\ current_scale = <<-1, 1>>
    /\ pending = <<>>
    /\ detections = <<>>
    /\ lastEval = NoEval
    /\ nmsCalls = 0
    /\ hogRet = <<>>
    /\ IdleNMS /\ IdleDepth /\ IdleHeur /\ IdleDisp

NextHog == HogNextLevel \/ HogEvalWindow \/ HogSuppress

SpecHog == InitHog /\ [][NextHog]_vars

\* Faulty variant of HogCallNms: the suppressor is also called between two
\* levels of the pyramid.
HogCallNmsBetweenLevels ==
    /\ hogPc \in {"suppress", "levels"}
    /\ boxes' = Int32Boxes(detections)
    /\ overlapThresh' = HogOverlapThresh
    /\ nmsPc' = "entry"
    /\ nmsCalls' = nmsCalls + 1
    /\ hogPc' = "nms"
    /\ UNCHANGED <<idxs, pick, nmsRet, lastPick, prevIdxs, run, firstBoxes, firstRet,
                   stableOrder>>
    /\ UNCHANGED <<image, rescaling_factor, levelNo, resized, current_scale,
                   pending, detections, lastEval, hogRet>>
    /\ UNCHANGED <<depthVars, heurVars, dispVars>>

\* hog_detect with the suppressor run step by step:
\* detections = non_max_suppression_fast(np.int32(detections), 0.4), the call
HogCallNms ==
    /\ hogPc = "suppress"
    /\ boxes' = Int32Boxes(detections)
    /\ overlapThresh' = HogOverlapThresh
    /\ nmsPc' = "entry"
    /\ nmsCalls' = nmsCalls + 1
    /\ hogPc' = "nms"
    /\ UNCHANGED <<idxs, pick, nmsRet, lastPick, prevIdxs, run, firstBoxes, firstRet,
                   stableOrder>>
    /\ UNCHANGED <<image, rescaling_factor, levelNo, resized, current_scale,
                   pending, detections, lastEval, hogRet>>
    /\ UNCHANGED <<depthVars, heurVars, dispVars>>

\* the suppressor has returned; return detections
HogReturn ==
    /\ hogPc = "nms"
    /\ nmsPc = "done"
    /\ hogRet' = ReturnedList(nmsRet)
    /\ hogPc' = "done"
    /\ UNCHANGED <<image, rescaling_factor, levelNo, resized, current_scale,
                   pending, detections, lastEval, nmsCalls>>
    /\ UNCHANGED <<nmsVars, depthVars, heurVars, dispVars>>

NextHogNms ==
    \/ HogNextLevel \/ HogEvalWindow \/ HogCallNms
    \/ NmsEnter \/ NmsIterate \/ NmsReturn \/ HogReturn

SpecHogNms == InitHog /\ [][NextHogNms]_vars

----------------------------------------------------------------------------
(* compute_depth and compute_single_depth, utils.py:167-201 *)

\* image[start:stop] on an axis of length n: the indexes selected.  A negative
\* bound counts from the end; bounds are clipped to the axis.
PySlice(start, stop, n) ==
    LET clip(v) == IF v < 0 THEN Max(0, v + n) ELSE Min(v, n)
    IN (clip(start) + 1)..clip(stop)

\* crop_image(image, start_height, end_height, start_width, end_width)
\* = image[start_height:end_height, start_width:end_width], flattened row by row
CropImage(img, start_height, end_height, start_width, end_width) ==
    LET h == Len(img)
        w == IF h = 0 THEN 0 ELSE Len(img[1])
        rows == PySlice(start_height, end_height, h)
        cols == PySlice(start_width, end_width, w)
        nr == Cardinality(rows)
        nc == Cardinality(cols)
        r0 == IF nr = 0 THEN 0 ELSE CHOOSE r \in rows : \A q \in rows : r <= q
        c0 == IF nc = 0 THEN 0 ELSE CHOOSE c \in cols : \A q \in cols : c <= q
    IN [k \in 1..(nr * nc) |-> img[r0 + ((k - 1) \div nc)][c0 + ((k - 1) % nc)]]

RECURSIVE InsertSorted(_, _)
\* v put into an ascending sequence
InsertSorted(seq, v) ==
    IF Len(seq) = 0 THEN <<v>>
    ELSE IF v <= Head(seq) THEN <<v>> \o seq
    ELSE <<Head(seq)>> \o InsertSorted(Tail(seq), v)

RECURSIVE NpSort(_)
\* np.sort(a, axis=None): the values in ascending order
NpSort(seq) ==
    IF Len(seq) = 0 THEN <<>> ELSE InsertSorted(NpSort(Tail(seq)), Head(seq))

\* Faulty variant of RetainedStart: the lower third is discarded.
RetainedStartLowerThird(n) == n \div 3

\* (2 * len(rectangle_disparity)) // 3: number of sorted values discarded
RetainedStart(n) == (2 * n) \div 3

\* compute_depth for one sample: (focal_length * distance_between_cameras) /
\* disparity, the division by zero giving infinity (np.errstate(divide='ignore'))
ComputeDepth(disparity, focal, baseline) ==
    IF disparity = 0 THEN [kind |-> "inf", value |-> <<0, 1>>]
    ELSE [kind |-> "number", value |-> Rat(focal * baseline, disparity)]

RECURSIVE RatSum(_)
\* the sum of a sequence of rationals
RatSum(seq) ==
    IF Len(seq) = 0 THEN <<0, 1>>
    ELSE LET t == RatSum(Tail(seq))
             h == Head(seq)
         IN Rat(h[1] * t[2] + t[1] * h[2], h[2] * t[2])

\* np.average(depths): not-a-number for no sample, infinity when a sample is
\* infinite, else the arithmetic mean
NpAverage(depths) ==
    IF Len(depths) = 0 THEN [kind |-> "nan", value |-> <<0, 1>>]
    ELSE IF \E k \in 1..Len(depths) : depths[k].kind = "inf"
         THEN [kind |-> "inf", value |-> <<0, 1>>]
    ELSE LET sum == RatSum([k \in 1..Len(depths) |-> depths[k].value])
         IN [kind |-> "number", value |-> Rat(sum[1], sum[2] * Len(depths))]

\* the sorted disparities compute_single_depth keeps: the slice [(2 * n) // 3 :]
RetainedDisparities(rect, img) ==
    LET sorted == NpSort(CropImage(img, rect[2], rect[4], rect[1], rect[3]))
    IN SubSeq(sorted, RetainedStart(Len(sorted)) + 1, Len(sorted))

\* compute_single_depth(rectangle, disparity_image, focal_length,
\* distance_between_cameras)
ComputeSingleDepth(rect, img, focal, baseline) ==
    LET kept == RetainedDisparities(rect, img)
    IN NpAverage([k \in 1..Len(kept) |-> ComputeDepth(kept[k], focal, baseline)])

\* the call runs to its return
DepthCompute ==
    /\ depthPc = "call"
    /\ depthRet' = ComputeSingleDepth(rectangle, disparity_image, focal_length,
                                      distance_between_cameras)
    /\ depthPc' = "done"
    /\ UNCHANGED <<rectangle, disparity_image, focal_length, distance_between_cameras>>
    /\ UNCHANGED <<nmsVars, hogVars, heurVars, dispVars>>

\* shapes <<height, width>> of the disparity images
DisparityShapes == {<<2, 2>>, <<1, 3>>}

\* the disparity images: rows of values 0..MaxDisparity
DisparityImages ==
    UNION {[1..sh[1] -> [1..sh[2] -> 0..MaxDisparity]] : sh \in DisparityShapes}

\* rectangles <<x1, y1, x2, y2>>, inside and outside the image, empty or not
DepthRectangles ==
    (-1..MaxCoord) \X (-1..MaxCoord) \X (-1..MaxCoord) \X (-1..MaxCoord)

\* focal lengths (pixels) and baselines (metres)
FocalLengths == {3}
Baselines == {1, 2}

InitDepth ==
    /\ rectangle \in DepthRectangles
    /\ disparity_image \in DisparityImages
    /\ focal_length \in FocalLengths
    /\ distance_between_cameras \in Baselines
    /\ depthPc = "call"
    /\ depthRet = NoValue
    /\ IdleNMS /\ IdleHog /\ IdleHeur /\ IdleDisp

NextDepth == DepthCompute

SpecDepth == InitDepth /\ [][NextDepth]_vars

----------------------------------------------------------------------------
(* area_depth_heuristic, utils.py:380-404 *)

\* expected_area = (height * width * focal_length**2) / distance**2
ExpectedArea(a) ==
    Rat(a.height * a.width * a.focal_length * a.focal_length, a.distance * a.distance)

\* observed_area = pixel_width * pixel_height
ObservedArea(a) == <<a.pixel_width * a.pixel_height, 1>>

\* Faulty variant of LowerFactor: the lower bound mirrors the upper one, (1.2 - mush_factor).
LowerFactorMirrored(m) == Rat(6 * m[2] - 5 * m[1], 5 * m[2])

\* (1 - mush_factor)
LowerFactor(m) == Rat(m[2] - m[1], m[2])

\* Faulty variant of UpperFactor: a symmetric bound, (1 + mush_factor).
UpperFactorSymmetric(m) == Rat(m[2] + m[1], m[2])

\* (1.2 + mush_factor)
UpperFactor(m) == Rat(6 * m[2] + 5 * m[1], 5 * m[2])

\* if observed_area < (1 - m) * expected_area or observed_area > (1.2 + m) *
\* expected_area: return False, else: return True
AreaDepthHeuristic(a) ==
    IF \/ RatLess(ObservedArea(a), RatMul(LowerFactor(a.mush_factor), ExpectedArea(a)))
       \/ RatLess(RatMul(UpperFactor(a.mush_factor), ExpectedArea(a)), ObservedArea(a))
    THEN "False"
    ELSE "True"

\* the call runs to its return
HeurCompute ==
    /\ heurPc = "call"
    /\ heurRet' = AreaDepthHeuristic(heurArgs)
    /\ heurPc' = "done"
    /\ UNCHANGED heurArgs
    /\ UNCHANGED <<nmsVars, hogVars, depthVars, dispVars>>

\* tolerances m
MushFactors == {<<0, 1>>, <<1, 5>>, <<1, 2>>, <<4, 5>>, <<1, 1>>}

\* the arguments: sizes in metres, pixel sizes, a non-zero distance, a focal length
HeurArguments ==
    [height : {1, 2}, width : {1, 2}, pixel_height : 0..MaxPixels,
     pixel_width : 0..MaxPixels, distance : 1..MaxDistance, focal_length : {1, 2, 3},
     mush_factor : MushFactors]

InitHeur ==
    /\ heurArgs \in HeurArguments
    /\ heurPc = "call"
    /\ heurRet = "none"
    /\ IdleNMS /\ IdleHog /\ IdleDepth /\ IdleDisp

NextHeur == HeurCompute

SpecHeur == InitHeur /\ [][NextHeur]_vars

----------------------------------------------------------------------------
(* compute_disparity, detect_and_range.py:101-127 *)

\* max_disparity = 128, the maximum_disparity argument of the one call
max_disparity == 128

\* the matcher's output is scaled by 16:  disparity / 16.
DisparityScale == 16

\* crop_image(disparity_scaled, 0, 390, 135, width): the first row kept, the row
\* the crop ends before, the first column kept
CropStartHeight == 0
CropEndHeight == 390
CropStartWidth == 135

\* shape <<height, width>> of the frames; width is the frame's own width
FrameShape == <<544, 1024>>

\* the pixels <<row, column>> (0-based) whose values are followed: the two
\* corners of the cropped area, and one pixel just below it
FollowedPixels == << <<0, 135>>, <<389, 1023>>, <<390, 135>> >>

\* values of a pixel of the matcher's output, a signed 16-bit array: the
\* invalid mark -16, 0, 1.5 and 127.94 pixels, max_disparity pixels exactly, one
\* pixel more, and 257 pixels
RawValues ==
    {-16, 0, 24, max_disparity * DisparityScale - 1, max_disparity * DisparityScale,
     (max_disparity + 1) * DisparityScale, 257 * DisparityScale}

\* cv2.filterSpeckles(disparity, 0, 4000, maximum_disparity - noise_filter): the
\* pixels of the small blobs are set to newVal = 0.  Which of the pixels
\* followed lie in a small blob depends on the rest of the image.
FilterSpecklesResults(img) ==
    {[k \in 1..Len(img) |-> IF k \in blob THEN 0 ELSE img[k]] :
        blob \in SUBSET (1..Len(img))}

\* cv2.threshold(src, thresh, maxval, cv2.THRESH_TOZERO) for one pixel: the value
\* where it is above thresh, else 0; maxval plays no part in this type
ThresholdToZero(v, thresh, maxval) == IF v > thresh THEN v ELSE 0

\* v / 16. converted to an integer type: the fraction is dropped
Scaled(v) == IF v >= 0 THEN v \div DisparityScale ELSE -((-v) \div DisparityScale)

\* astype(np.uint8) of a value with no fraction: the value itself in 0..255;
\* outside that range the conversion from floating point is undefined, and a
\* build wraps the value modulo 256 or saturates it
AsUint8(q) ==
    IF q \in 0..255 THEN {q}
    ELSE {q % 256, IF q > 255 THEN 255 ELSE 0}

\* cv2.filterSpeckles(disparity, 0, 4000, maximum_disparity - noise_filter)
DispFilterSpeckles ==
    /\ dispPc = "speckles"
    /\ dispArray' \in FilterSpecklesResults(dispArray)
    /\ dispPc' = "threshold"
    /\ UNCHANGED <<dispRaw, disparity_scaled, dispRet>>
    /\ UNCHANGED <<nmsVars, hogVars, depthVars, heurVars>>

\* _, disparity = cv2.threshold(disparity, 0, maximum_disparity * 16, cv2.THRESH_TOZERO)
DispThreshold ==
    /\ dispPc = "threshold"
    /\ dispArray' = [k \in 1..Len(dispArray) |->
                        ThresholdToZero(dispArray[k], 0, max_disparity * DisparityScale)]
    /\ dispPc' = "scale"
    /\ UNCHANGED <<dispRaw, disparity_scaled, dispRet>>
    /\ UNCHANGED <<nmsVars, hogVars, depthVars, heurVars>>

\* disparity_scaled = (disparity / 16.).astype(np.uint8)
DispScale ==
    /\ dispPc = "scale"
    /\ LET cells == UNION {AsUint8(Scaled(dispArray[k])) : k \in 1..Len(dispArray)}
       IN disparity_scaled' \in
             {img \in [1..Len(dispArray) -> cells] :
                 \A k \in 1..Len(dispArray) : img[k] \in AsUint8(Scaled(dispArray[k]))}
    /\ dispPc' = "crop"
    /\ UNCHANGED <<dispRaw, dispArray, dispRet>>
    /\ UNCHANGED <<nmsVars, hogVars, depthVars, heurVars>>

\* whether crop_image(image, start_height, end_height, start_width, end_width)
\* keeps the pixel <<row, column>> of an image of shape sh
CropKeeps(pixel, sh, start_height, end_height, start_width, end_width) ==
    /\ pixel[1] + 1 \in PySlice(start_height, end_height, sh[1])
    /\ pixel[2] + 1 \in PySlice(start_width, end_width, sh[2])

\* disparity_scaled = crop_image(disparity_scaled, 0, 390, 135, width);
\* return disparity_scaled
DispCrop ==
    /\ dispPc = "crop"
    /\ LET kept == {k \in 1..Len(disparity_scaled) :
                       CropKeeps(FollowedPixels[k], FrameShape, CropStartHeight,
                                 CropEndHeight, CropStartWidth, FrameShape[2])}
       IN dispRet' = NpDelete(disparity_scaled, (1..Len(disparity_scaled)) \ kept)
    /\ dispPc' = "done"
    /\ UNCHANGED <<dispRaw, dispArray, disparity_scaled>>
    /\ UNCHANGED <<nmsVars, hogVars, depthVars, heurVars>>

\* the state after disparity = stereoProcessor.compute(gray_left_image,
\* gray_right_image)
InitDisp ==
    /\ dispRaw \in [1..Len(FollowedPixels) -> RawValues]
    /\ dispArray = dispRaw
    /\ dispPc = "speckles"
    /\ disparity_scaled = <<>>
    /\ dispRet = <<>>
    /\ IdleNMS /\ IdleHog /\ IdleDepth /\ IdleHeur

NextDisp == DispFilterSpeckles \/ DispThreshold \/ DispScale \/ DispCrop

SpecDisp == InitDisp /\ [][NextDisp]_vars

----------------------------------------------------------------------------
(* Properties of area_depth_heuristic *)

\* (1 - m) * expectedArea <= observedArea <= (1.2 + m) * expectedArea, with
\* expectedArea = height * width * focalLength^2 / depth^2 and m = mn / md,
\* every term multiplied by 5 * md * depth^2
WithinBounds(a) ==
    LET mn == a.mush_factor[1]
        md == a.mush_factor[2]
        scaledExpected == a.height * a.width * a.focal_length * a.focal_length
        scaledObserved ==
            a.pixel_width * a.pixel_height * a.distance * a.distance
    IN /\ 5 * (md - mn) * scaledExpected <= 5 * md * scaledObserved
       /\ 5 * md * scaledObserved <= (6 * md + 5 * mn) * scaledExpected

\* C10: area_depth_heuristic returns True if and only if (1 - m) * expectedArea
\* <= observedArea <= (1.2 + m) * expectedArea, for a non-zero depth; it returns
\* a boolean, and the call changes nothing but its own result.
C10_AcceptIffWithinBounds ==
    /\ [](heurPc = "done" =>
            /\ heurArgs.distance # 0
            /\ heurRet \in {"True", "False"}
            /\ (heurRet = "True") <=> WithinBounds(heurArgs))
    /\ [][heurPc' = "done" =>
            /\ heurArgs' = heurArgs
            /\ UNCHANGED <<nmsVars, hogVars, depthVars, dispVars>>]_vars

\* C10 witness: a detection was accepted with its area exactly at the upper
\* bound (1.2 + m) * expectedArea.
C10_Witness ==
    /\ heurPc = "done"
    /\ heurRet = "True"
    /\ heurArgs.pixel_width * heurArgs.pixel_height > 0
    /\ 5 * heurArgs.mush_factor[2] * heurArgs.pixel_width * heurArgs.pixel_height
         * heurArgs.distance * heurArgs.distance
       = (6 * heurArgs.mush_factor[2] + 5 * heurArgs.mush_factor[1])
         * heurArgs.height * heurArgs.width
         * heurArgs.focal_length * heurArgs.focal_length

\* the observed pixel area equals the expected area exactly:
\* pixel_width * pixel_height = height * width * focal_length^2 / distance^2
ObservedEqualsExpected(a) ==
    a.pixel_width * a.pixel_height * a.distance * a.distance
      = a.height * a.width * a.focal_length * a.focal_length

\* C11: whenever observedArea is exactly equal to expectedArea,
\* area_depth_heuristic returns True, for every tolerance m in [0, 1].
C11_AcceptsExpectedArea ==
    (heurPc = "done" /\ ObservedEqualsExpected(heurArgs)) => heurRet = "True"

\* C11 witness: a detection whose non-zero pixel area equals the expected area
\* was accepted at the tolerance 0, where both bounds are tightest.
C11_Witness ==
    /\ heurPc = "done"
    /\ heurRet = "True"
    /\ heurArgs.mush_factor = <<0, 1>>
    /\ heurArgs.pixel_width * heurArgs.pixel_height > 0
    /\ ObservedEqualsExpected(heurArgs)

----------------------------------------------------------------------------
(* Properties of compute_disparity *)

\* C15: every cell of the map compute_disparity returns lies in
\* [0, maxDisparity], whatever the matcher's output: after the thresholding
\* every value lies in [0, maxDisparity * 16], before the division by 16 and
\* the conversion to 8 bits.
C15_CellsWithinMaxDisparity ==
    /\ dispPc \in {"scale", "crop", "done"} =>
          \A k \in 1..Len(dispArray) :
              dispArray[k] \in 0..(max_disparity * DisparityScale)
    /\ dispPc = "done" =>
          \A k \in 1..Len(dispRet) : dispRet[k] \in 0..max_disparity

----------------------------------------------------------------------------
(* Properties of compute_single_depth *)

\* the disparity values inside the rectangle
Region ==
    CropImage(disparity_image, rectangle[2], rectangle[4], rectangle[1], rectangle[3])

\* C6: when every disparity value inside the rectangle is zero, the call signals
\* a distinct invalid-region failure; it returns neither 0 nor infinity.
C6_AllZeroRegionSignalsFailure ==
    (depthPc = "done" /\ Len(Region) >= 1 /\ \A k \in 1..Len(Region) : Region[k] = 0) =>
        /\ depthRet.kind = "failure"
        /\ depthRet.kind # "inf"
        /\ ~(depthRet.kind = "number" /\ depthRet.value[1] = 0)

\* C7: for a rectangle whose disparity values include a non-zero value the depth
\* returned is the mean of the depths of the non-zero retained samples only,
\* hence finite.
C7_ZeroSamplesExcluded ==
    (depthPc = "done" /\ \E k \in 1..Len(Region) : Region[k] # 0) =>
        LET kept == RetainedDisparities(rectangle, disparity_image)
            nonZero == SelectSeq(kept, LAMBDA d : d # 0)
        IN /\ depthRet.kind = "number"
           /\ depthRet = NpAverage([k \in 1..Len(nonZero) |->
                             ComputeDepth(nonZero[k], focal_length,
                                          distance_between_cameras)])

\* C8: for a rectangle that selects no pixel of the disparity map the call
\* reports an error condition; it yields no value computed as an average over
\* the empty slice.
C8_EmptyRegionGuarded ==
    (depthPc = "done" /\ Len(Region) = 0) =>
        /\ depthRet.kind = "error"
        /\ depthRet.kind \notin {"number", "inf", "nan"}

RECURSIVE RemoveOne(_, _)
\* seq without one occurrence of v
RemoveOne(seq, v) ==
    IF Len(seq) = 0 THEN <<>>
    ELSE IF Head(seq) = v THEN Tail(seq)
    ELSE <<Head(seq)>> \o RemoveOne(Tail(seq), v)

RECURSIVE Largest(_, _)
\* the k largest values of seq, largest first
Largest(seq, k) ==
    IF k = 0 \/ Len(seq) = 0 THEN <<>>
    ELSE LET m == CHOOSE v \in Range(seq) : \A u \in Range(seq) : u <= v
         IN <<m>> \o Largest(RemoveOne(seq, m), k - 1)

\* C9: for a rectangle selecting n >= 1 pixels, floor(2n/3) sorted values are
\* discarded, the ceil(n/3) >= 1 largest values are retained, and the value
\* returned is the arithmetic mean of focal*baseline/d over the retained d.
C9_MeanOfLargestThird ==
    (depthPc = "done" /\ Len(Region) >= 1) =>
        LET n == Len(Region)
            kept == RetainedDisparities(rectangle, disparity_image)
            top == Largest(Region, (n + 2) \div 3)
        IN /\ Len(kept) = (n + 2) \div 3
           /\ Len(kept) >= 1
           /\ n - Len(kept) = (2 * n) \div 3
           /\ \A k \in 1..Len(kept) : kept[k] = top[Len(kept) + 1 - k]
           /\ depthRet = NpAverage([k \in 1..Len(top) |->
                             ComputeDepth(top[k], focal_length,
                                          distance_between_cameras)])

\* C9 witness: a call returned a finite mean over a region of three or more
\* pixels holding two different non-zero disparities, with a value discarded.
C9_Witness ==
    /\ depthPc = "done"
    /\ Len(Region) >= 3
    /\ depthRet.kind = "number"
    /\ \E j, k \in 1..Len(Region) :
          Region[j] # 0 /\ Region[k] # 0 /\ Region[j] # Region[k]
    /\ Len(RetainedDisparities(rectangle, disparity_image)) < Len(Region)

----------------------------------------------------------------------------
(* Properties of hog_detect *)

\* C4: the value hog_detect returns is a collection of detection rectangles
\* (x1, y1, x2, y2) in original-image coordinates, each one of the rescaled
\* candidates accumulated during the scan.
C4_ReturnsSurvivingRectangles ==
    hogPc = "done" =>
        \A k \in 1..Len(hogRet) :
            /\ hogRet[k].type = "rectangle"
            /\ hogRet[k].value \in Range(detections)

\* C5: the classifier is invoked for a window only if the window's descriptor
\* is non-empty; on an empty descriptor no classifier call is made, no candidate
\* is recorded and the scan goes on.
C5_PredictOnlyOnNonEmptyDescriptor ==
    /\ lastEval.predicted => lastEval.descriptor # "empty"
    /\ lastEval.descriptor = "empty" =>
          /\ ~lastEval.predicted
          /\ lastEval.result # "positive"
          /\ hogPc # "raised"

RECURSIVE ScaleAtLevel(_, _)
\* the scale factor of the k-th level yielded (k = 1 for level 0): 1, then the
\* previous level's factor divided by the ratio R
ScaleAtLevel(k, R) ==
    IF k <= 1 THEN <<1, 1>>
    ELSE LET prev == ScaleAtLevel(k - 1, R)
         IN Rat(prev[1] * R[2], prev[2] * R[1])

\* the stride derived for the level of shape sh is zero or less
DegenerateStride(sh) == sh[1] \div StepDivisor <= 0

\* C13: a pyramid level whose derived stride floor(levelHeight / 16) is <= 0 is
\* skipped entirely: no window of it is evaluated (no descriptor or classifier
\* call), it adds no candidate, the scan goes on with the next level, and the
\* scale factor still advances for the level.
C13_DegenerateLevelSkipped ==
    /\ [](hogPc = "windows" => ~DegenerateStride(resized))
    /\ [](levelNo >= 1 => current_scale = ScaleAtLevel(levelNo, rescaling_factor))
    /\ [][(lastEval' # lastEval \/ detections' # detections) =>
              ~DegenerateStride(resized)]_vars
    /\ [][(levelNo' = levelNo + 1 /\ DegenerateStride(resized')) =>
              /\ detections' = detections
              /\ lastEval' = lastEval
              /\ pending' = <<>>
              /\ hogPc' = "levels"
              /\ IF levelNo = 0 THEN current_scale' = <<1, 1>>
                 ELSE current_scale'[1] * current_scale[2] * rescaling_factor[1]
                        = current_scale[1] * rescaling_factor[2] * current_scale'[2]]_vars

\* C13 witness: a scan returned after its second level was skipped for its
\* stride of 0, with a candidate from the first level and the scale advanced.
C13_Witness ==
    /\ hogPc = "done"
    /\ levelNo = 2
    /\ DegenerateStride(resized)
    /\ ~DegenerateStride(image)
    /\ Len(detections) > 0
    /\ current_scale = <<2, 3>>

\* the level-local rectangle (x, y, x + w, y + h) of the window at pos
LocalRect(pos) ==
    <<pos[1], pos[2], pos[1] + DATA_WINDOW_SIZE[1], pos[2] + DATA_WINDOW_SIZE[2]>>

\* C16: the scale factor of the k-th level processed is exactly 1 for level 0
\* and the previous level's factor divided by the ratio R for every later level
\* (strictly decreasing, R > 1); every candidate accumulated from a level with
\* factor f is the level-local rectangle (x, y, x + w, y + h) with all four
\* components divided by f; x1 < x2 and y1 < y2 hold for every accumulated
\* detection.
C16_ScaleAndRescaledCandidates ==
    /\ [](levelNo >= 1 => current_scale = ScaleAtLevel(levelNo, rescaling_factor))
    /\ [][levelNo' = levelNo + 1 =>
              IF levelNo = 0 THEN current_scale' = <<1, 1>>
              ELSE /\ current_scale'[1] * current_scale[2] * rescaling_factor[1]
                        = current_scale[1] * rescaling_factor[2] * current_scale'[2]
                   /\ RatLess(current_scale', current_scale)]_vars
    /\ [][detections' # detections =>
              LET f == ScaleAtLevel(levelNo, rescaling_factor)
                  local == LocalRect(lastEval'.window)
                  d == detections'[Len(detections')]
              IN /\ levelNo' = levelNo
                 /\ lastEval'.result = "positive"
                 /\ detections' = Append(detections, d)
                 /\ \A c \in 1..4 : d[c][1] * f[1] = local[c] * f[2] * d[c][2]]_vars
    /\ [](\A k \in 1..Len(detections) :
             /\ RatLess(detections[k][1], detections[k][3])
             /\ RatLess(detections[k][2], detections[k][4]))

\* C16 witness: the window at (0, 1) of the second level, of factor 2/3, was
\* accumulated as (0, 3/2, 6, 27/2).
C16_Witness ==
    /\ levelNo = 2
    /\ current_scale = <<2, 3>>
    /\ lastEval.result = "positive"
    /\ lastEval.window = <<0, 1>>
    /\ Len(detections) > 0
    /\ detections[Len(detections)] = << <<0, 1>>, <<3, 2>>, <<6, 1>>, <<27, 2>> >>

\* C14: given zero input detections the suppressor returns the empty list and
\* raises no error; hog_detect on a frame where no window is classified
\* positive hands it zero detections and returns an empty result.
C14_EmptyInputEmptyOutput ==
    /\ (Len(boxes) = 0 /\ nmsPc \notin {"idle", "entry"}) =>
          (nmsPc = "done" /\ nmsRet = <<>>)
    /\ (hogPc \in {"nms", "done"} /\ Len(detections) = 0) => Len(boxes) = 0
    /\ (hogPc = "done" /\ Len(detections) = 0) => hogRet = <<>>

\* C14 witness: hog_detect returned the empty list from a scan that classified
\* a window and recorded no candidate.
C14_Witness ==
    /\ hogPc = "done"
    /\ Len(detections) = 0
    /\ lastEval.predicted
    /\ lastEval.result = "negative"
    /\ nmsPc = "done"
    /\ nmsRet = <<>>
    /\ hogRet = <<>>

\* C17: in a run of hog_detect the suppressor is invoked once, and only after
\* every window of every pyramid level has been evaluated and its candidate
\* appended: the invocation finds no window pending and the pyramid exhausted,
\* it is handed every accumulated candidate, and no candidate is evaluated or
\* appended after it.
C17_SuppressionAfterAggregation ==
    /\ [](nmsCalls <= 1)
    /\ [](hogPc = "done" => nmsCalls = 1)
    /\ [](nmsPc # "idle" => (nmsCalls = 1 /\ boxes = Int32Boxes(detections)))
    /\ [][(nmsPc' = "entry" /\ nmsPc # "entry") =>
              /\ nmsCalls = 0
              /\ nmsCalls' = 1
              /\ levelNo >= 1
              /\ pending = <<>>
              /\ ~PyramidYields(PyramidResize(resized, rescaling_factor))
              /\ boxes' = Int32Boxes(detections)]_vars
    /\ [][nmsCalls >= 1 =>
              /\ detections' = detections
              /\ lastEval' = lastEval
              /\ levelNo' = levelNo
              /\ pending' = pending]_vars

\* C17 witness: a scan of two levels returned after one invocation of the
\* suppressor on two candidates, one of each level.
C17_Witness ==
    /\ hogPc = "done"
    /\ nmsCalls = 1
    /\ levelNo = 2
    /\ Len(detections) = 2
    /\ detections[1][3] = <<4, 1>>
    /\ detections[2][3] = <<6, 1>>
    /\ Len(boxes) = 2

----------------------------------------------------------------------------
(* Properties of the suppressor *)

\* intersection area of two rectangles under the +1 convention
InterArea(a, b) ==
    LET w == Min(a[3], b[3]) - Max(a[1], b[1]) + 1
        h == Min(a[4], b[4]) - Max(a[2], b[2]) + 1
    IN IF w > 0 /\ h > 0 THEN w * h ELSE 0

\* intersection-area(a, b) / area(a) <= T
RatioAtMost(a, b, T) == InterArea(a, b) * T[2] <= T[1] * Area(a)

\* the returned indexes are distinct indexes of the input
KeptIsSubset ==
    /\ \A k \in 1..Len(nmsRet) : nmsRet[k] \in 1..Len(boxes)
    /\ \A j, k \in 1..Len(nmsRet) : j # k => nmsRet[j] # nmsRet[k]

\* C1 as stated: the kept detections are a subset of the input and every two
\* distinct kept detections a, b have intersection/area(a) <= T and
\* intersection/area(b) <= T.  The statement is taken with ties in y2 kept in
\* array order, the order the specification names.
C1_MutuallyLowOverlap ==
    (nmsPc = "done" /\ stableOrder) =>
        /\ KeptIsSubset
        /\ \A j, k \in 1..Len(nmsRet) : j # k =>
               /\ RatioAtMost(boxes[nmsRet[j]], boxes[nmsRet[k]], overlapThresh)
               /\ RatioAtMost(boxes[nmsRet[k]], boxes[nmsRet[j]], overlapThresh)

\* C1 amended: the kept detections are a subset of the input, and for every two
\* kept detections the one picked later, b, has intersection/area(b) <= T with
\* the one picked earlier (the ratio over the earlier one's area is not bounded).
C1_LaterPickLowOverlap ==
    nmsPc = "done" =>
        /\ KeptIsSubset
        /\ \A j, k \in 1..Len(nmsRet) : j < k =>
               RatioAtMost(boxes[nmsRet[k]], boxes[nmsRet[j]], overlapThresh)

\* C1 witness: a finished run that suppressed a detection and kept two
\* detections that intersect.
C1_Witness ==
    /\ nmsPc = "done"
    /\ run = 1
    /\ Len(nmsRet) < Len(boxes)
    /\ \E j, k \in 1..Len(nmsRet) :
          j < k /\ InterArea(boxes[nmsRet[j]], boxes[nmsRet[k]]) > 0

\* the set of rectangles an application kept
KeptSet(bs, r) == Range(PickedBoxes(bs, r))

\* C2 as stated: applying the suppressor to the rectangles a first application
\* kept, in the order they were picked, keeps the same set of rectangles.  The
\* statement is taken with ties in y2 kept in array order, as the claim's
\* sources have it.
C2_Idempotent ==
    (nmsPc = "done" /\ run = 2 /\ stableOrder) =>
        KeptSet(boxes, nmsRet) = KeptSet(firstBoxes, firstRet)

\* no two rectangles of the list share their y2
DistinctY2(bs) == \A j, k \in 1..Len(bs) : j # k => bs[j][4] # bs[k][4]

\* C2 amended: when the rectangles kept by the first application have pairwise
\* distinct y2, applying the suppressor to them keeps the same set of rectangles.
C2_IdempotentDistinctY2 ==
    (nmsPc = "done" /\ run = 2 /\ DistinctY2(boxes)) =>
        KeptSet(boxes, nmsRet) = KeptSet(firstBoxes, firstRet)

\* C2 witness: a second application finished on two or more kept rectangles
\* with distinct y2, the first application having suppressed a detection.
C2_Witness ==
    /\ nmsPc = "done"
    /\ run = 2
    /\ DistinctY2(boxes)
    /\ Len(boxes) >= 2
    /\ Len(firstRet) < Len(firstBoxes)

\* C3: each iteration accepts a remaining detection with the largest y2 and
\* removes from the remaining detections exactly the accepted one and every
\* remaining c with intersection(accepted, c)/area(c) > T; the remaining
\* detections stay ordered by ascending y2; the accepted detections are the
\* result; the scenario keeps (200,200,260,260) and (5,5,55,55) and no other.
C3_GreedyProcedure ==
    /\ (nmsPc = "loop" /\ lastPick # 0) =>
          /\ lastPick \in Range(prevIdxs)
          /\ \A c \in Range(prevIdxs) : boxes[c][4] <= boxes[lastPick][4]
          /\ Range(idxs) =
                Range(prevIdxs) \
                  ({lastPick} \cup
                   {c \in Range(prevIdxs) :
                       ~RatioAtMost(boxes[c], boxes[lastPick], overlapThresh)})
          /\ \A j, k \in 1..Len(idxs) : j < k => boxes[idxs[j]][4] <= boxes[idxs[k]][4]
          /\ pick[Len(pick)] = lastPick
    /\ nmsPc = "done" => nmsRet = pick
    /\ (nmsPc = "done" /\ run = 1 /\ boxes = ScenarioBoxes) =>
          /\ Len(nmsRet) = 2
          /\ KeptSet(boxes, nmsRet) = {<<200, 200, 260, 260>>, <<5, 5, 55, 55>>}

\* C3 witness: the scenario has been suppressed down to two detections.
C3_Witness ==
    /\ nmsPc = "done"
    /\ run = 1
    /\ boxes = ScenarioBoxes
    /\ overlapThresh = <<2, 5>>
    /\ Len(nmsRet) = 2

\* the detections of S intersect pairwise (positive area under the +1 convention)
PairwiseOverlap(bs, S) ==
    \A j, k \in S : j # k => InterArea(bs[j], bs[k]) > 0

\* the clusters: the largest sets of input detections that intersect pairwise
Clusters(bs) ==
    {S \in SUBSET (1..Len(bs)) :
        /\ S # {}
        /\ PairwiseOverlap(bs, S)
        /\ \A i \in (1..Len(bs)) \ S : ~PairwiseOverlap(bs, S \cup {i})}

\* C12 as stated: with T = 1 no detection is dropped whose overlap ratio with
\* an accepted box is below 1, and with T = 0 exactly one detection is kept out
\* of every cluster of detections that overlap pairwise.  The statement is
\* taken with ties in y2 kept in array order.
C12_ExactlyOnePerCluster ==
    /\ (nmsPc = "done" /\ stableOrder /\ overlapThresh = <<1, 1>>) =>
          \A i \in 1..Len(boxes) :
              (\E k \in Range(nmsRet) :
                  InterArea(boxes[i], boxes[k]) < Area(boxes[i])) =>
                  i \in Range(nmsRet)
    /\ (nmsPc = "done" /\ stableOrder /\ overlapThresh = <<0, 1>>) =>
          \A S \in Clusters(boxes) : Cardinality(S \cap Range(nmsRet)) = 1

\* C12 amended: with T = 1 no detection at all is dropped; with T = 0 at most
\* one detection is kept out of any set of detections that overlap pairwise,
\* and every dropped detection intersects a kept one.
C12_AtMostOnePerCluster ==
    /\ (nmsPc = "done" /\ overlapThresh = <<1, 1>>) =>
          /\ Range(nmsRet) = 1..Len(boxes)
          /\ Len(nmsRet) = Len(boxes)
    /\ (nmsPc = "done" /\ overlapThresh = <<0, 1>>) =>
          /\ \A S \in SUBSET (1..Len(boxes)) :
                 PairwiseOverlap(boxes, S) => Cardinality(S \cap Range(nmsRet)) <= 1
          /\ \A i \in (1..Len(boxes)) \ Range(nmsRet) :
                 \E k \in Range(nmsRet) : InterArea(boxes[i], boxes[k]) > 0

\* C12 witness: a run at T = 0 finished with two detections kept and a cluster
\* of two detections of which none was kept.
C12_Witness ==
    /\ nmsPc = "done"
    /\ run = 1
    /\ overlapThresh = <<0, 1>>
    /\ Len(nmsRet) = 2
    /\ \E S \in Clusters(boxes) :
          Cardinality(S) = 2 /\ S \cap Range(nmsRet) = {}

\* C18: the loop terminates.  Each iteration removes the accepted index from the
\* remaining indexes and strictly shrinks them, so that it runs at most once
\* per input detection; while an index remains the next iteration can be taken
\* and the loop cannot end, and with none remaining it ends; by then every input
\* index has been accepted or removed, and no index is accepted twice.
C18_LoopTerminates ==
    /\ [][(nmsPc = "loop" /\ pick' # pick) =>
              /\ Len(idxs) > 0
              /\ Len(idxs') < Len(idxs)
              /\ Range(idxs') \subseteq Range(idxs)
              /\ pick' = Append(pick, idxs[Len(idxs)])
              /\ idxs[Len(idxs)] \notin Range(idxs')]_vars
    /\ [][(nmsPc = "loop" /\ nmsPc' = "done") => (Len(idxs) = 0 /\ nmsRet' = pick)]_vars
    /\ [][(nmsPc = "loop" /\ Len(idxs) > 0) => (nmsPc' = "loop" /\ pick' # pick)]_vars
    /\ [][(nmsPc = "loop" /\ Len(idxs) = 0) => nmsPc' = "done"]_vars
    /\ [](nmsPc = "loop" =>
            /\ Len(idxs) = 0 => ENABLED NmsReturn
            /\ Len(idxs) > 0 =>
                  Len(NextIdxs(boxes, idxs, overlapThresh)) < Len(idxs)
            /\ Range(pick) \cap Range(idxs) = {}
            /\ Range(pick) \cup Range(idxs) \subseteq 1..Len(boxes)
            /\ Len(pick) + Len(idxs) <= Len(boxes))
    /\ [](nmsPc = "done" =>
            /\ Len(idxs) = 0
            /\ Range(nmsRet) \subseteq 1..Len(boxes)
            /\ Len(nmsRet) <= Len(boxes)
            /\ \A j, k \in 1..Len(nmsRet) : j # k => nmsRet[j] # nmsRet[k])

\* C18 witness: the loop ended on three detections after two iterations, one
\* detection removed and two accepted.
C18_Witness ==
    /\ nmsPc = "done"
    /\ run = 1
    /\ Len(boxes) = 3
    /\ Len(nmsRet) = 2
    /\ Len(idxs) = 0

====
